---- MODULE Spec2Model ----
(***************************************************************************)
(* kalamine/layout.py: the grid codec (_parse_template, _fill_template,    *)
(* upper_key), the layout assembler (KeyboardLayout.__init__) with its     *)
(* dead-key pruning and 1dk synthesis, and the geometry views.             *)
(*                                                                         *)
(* A Python str is a sequence of one-character strings; characters outside *)
(* ASCII are written "U+XXXX".  A Python dict is a sequence of <<key,      *)
(* value>> pairs in insertion order.  Objects that Python handles by       *)
(* reference (the dead-key dictionaries) live in `heap`.                   *)
(***************************************************************************)
EXTENDS Integers, Sequences, FiniteSets, TLC

VARIABLES
    files,      \* path -> descriptor, as load_descriptor returns it
    heap,       \* object id -> dead-key dict (the catalog's and the copies)
    status,     \* "none" | "done" | the exception __init__ raised
    layers,     \* self.layers
    dead_keys,  \* self.dead_keys: trigger -> object id
    dk_index,   \* self.dk_index
    meta,       \* self.meta
    has_altgr,  \* self.has_altgr
    has_1dk,    \* self.has_1dk
    built,      \* the instance as __init__ left it, and the file it was built from
    ret,        \* what the last property read returned
    rt          \* the codec round trip: canvas, parsed layers, refilled canvas

vars == <<files, heap, status, layers, dead_keys, dk_index, meta, has_altgr,
          has_1dk, built, ret, rt>>

----------------------------------------------------------------------------
(* Python dict, in insertion order *)

DictHas(d, k) == \E n \in 1..Len(d) : d[n][1] = k

DictIdx(d, k) == CHOOSE n \in 1..Len(d) : d[n][1] = k

DictGet(d, k) == d[DictIdx(d, k)][2]

DictSet(d, k, v) ==
    IF DictHas(d, k) THEN [d EXCEPT ![DictIdx(d, k)] = <<k, v>>]
    ELSE Append(d, <<k, v>>)

(* Python list/str indexing: 0-based, a negative index counts from the end *)
PyIdx(s, i) == IF i >= 0 THEN i + 1 ELSE Len(s) + i + 1

At(s, i) == s[PyIdx(s, i)]

SetAt(s, i, c) == [s EXCEPT ![PyIdx(s, i)] = c]

----------------------------------------------------------------------------
(* Statements run one after the other: in Then([x \in {v} |-> e]) the value
   v of the first is computed before e, which uses it as x, starts. *)

Then(f) == f[CHOOSE x \in DOMAIN f : TRUE]

----------------------------------------------------------------------------
(* str.upper() and str.lower() on the characters the model uses *)

LowerLetters ==
    <<"a", "b", "c", "d", "e", "f", "g", "h", "i", "j", "k", "l", "m",
      "n", "o", "p", "q", "r", "s", "t", "u", "v", "w", "x", "y", "z">>

UpperLetters ==
    <<"A", "B", "C", "D", "E", "F", "G", "H", "I", "J", "K", "L", "M",
      "N", "O", "P", "Q", "R", "S", "T", "U", "V", "W", "X", "Y", "Z">>

LetterIdx(seq, c) == CHOOSE n \in 1..Len(seq) : seq[n] = c

IsIn(seq, c) == \E n \in 1..Len(seq) : seq[n] = c

CharUpper(c) ==
    IF IsIn(LowerLetters, c) THEN <<UpperLetters[LetterIdx(LowerLetters, c)]>>
    ELSE IF c = "U+00DF" THEN <<"S", "S">>          \* sharp s
    ELSE IF c = "U+00B5" THEN <<"U+039C">>          \* micro sign -> capital mu
    ELSE <<c>>

CharLower(c) ==
    IF IsIn(UpperLetters, c) THEN <<LowerLetters[LetterIdx(UpperLetters, c)]>>
    ELSE IF c = "U+1E9E" THEN <<"U+00DF">>          \* capital sharp s
    ELSE IF c = "U+039C" THEN <<"U+03BC">>
    ELSE <<c>>

RECURSIVE StrUpper(_)
StrUpper(s) == IF s = <<>> THEN <<>> ELSE CharUpper(Head(s)) \o StrUpper(Tail(s))

RECURSIVE StrLower(_)
StrLower(s) == IF s = <<>> THEN <<>> ELSE CharLower(Head(s)) \o StrLower(Tail(s))

Blank == <<" ">>

custom_alpha ==
    << <<"U+00DF", "U+1E9E">>,
       <<"|", "U+00A6">>,
       <<"<", "U+2264">>,
       <<">", "U+2265">>,
       <<"U+2020", "U+2021">>,
       <<"U+2190", "U+21D0">>,
       <<"U+2191", "U+21D1">>,
       <<"U+2192", "U+21D2">>,
       <<"U+2193", "U+21D3">>,
       <<"U+00B5", " ">> >>

upper_key(letter) ==
    IF Len(letter) # 1 THEN Blank
    ELSE IF DictHas(custom_alpha, letter[1]) THEN <<DictGet(custom_alpha, letter[1])>>
    ELSE IF StrUpper(letter) # StrLower(letter) THEN StrUpper(letter)
    ELSE Blank

----------------------------------------------------------------------------
(* utils.Layer, utils.ODK_ID *)

BASE == 0
SHIFT == 1
ODK == 2
ODK_SHIFT == 3
ALTGR == 4
ALTGR_SHIFT == 5

ODK_ID == <<"*", "*">>

(* layers[n] of Python is Lyr(layers, n) *)
Lyr(ls, n) == ls[n + 1]

LyrSet(ls, n, key, v) == [ls EXCEPT ![n + 1] = DictSet(@, key, v)]

----------------------------------------------------------------------------
(* GEOMETRY = load_data("geometry.yaml"): three shapes, cut down to two keys *)

KeyPitch == 6

ANSI == <<"A", "N", "S", "I">>
ISO == <<"I", "S", "O">>
ERGO == <<"E", "R", "G", "O">>

Shapes == {ANSI, ISO, ERGO}

GeometryRows(shape) ==
    CASE shape = ISO  -> << [offset |-> 1, keys |-> <<"ae01", "ae02">>] >>
      [] shape = ANSI -> << [offset |-> 1, keys |-> <<"ae01">>],
                            [offset |-> 3, keys |-> <<"ad01">>] >>
      [] shape = ERGO -> << [offset |-> 2, keys |-> <<"ae01">>] >>

RowWidth(row) == row.offset + KeyPitch * Len(row.keys)

ShapeWidth(rows) ==
    CHOOSE m \in {RowWidth(rows[n]) : n \in 1..Len(rows)} :
        \A n \in 1..Len(rows) : RowWidth(rows[n]) <= m

DecoLine(width) == [c \in 1..width |-> "-"]

CellLine(width, row) ==
    [c \in 1..width |->
        IF c - 1 >= row.offset /\ (c - 1 - row.offset) % KeyPitch = 4
        THEN "|" ELSE " "]

RECURSIVE RowLines(_, _, _)
RowLines(width, rows, n) ==
    IF n > Len(rows) THEN <<>>
    ELSE <<DecoLine(width), CellLine(width, rows[n]), CellLine(width, rows[n])>>
         \o RowLines(width, rows, n + 1)

(* the template text split at "\n": its lines and the empty string after the
   last line break *)
GeometryTemplateSplit(shape) ==
    RowLines(ShapeWidth(GeometryRows(shape)), GeometryRows(shape), 1) \o << <<>> >>

GeometryTable ==
    [shape \in Shapes |->
        [rows |-> GeometryRows(shape), template |-> GeometryTemplateSplit(shape)]]

GEOMETRY(shape) == GeometryTable[shape]

(* GEOMETRY[shape]["template"].split("\n")[:-1] *)
TemplateLines(shape) ==
    SubSeq(GEOMETRY(shape).template, 1, Len(GEOMETRY(shape).template) - 1)

ShapeKeys(shape) ==
    UNION {{GeometryRows(shape)[n].keys[m] : m \in 1..Len(GeometryRows(shape)[n].keys)} :
              n \in 1..Len(GeometryRows(shape))}

----------------------------------------------------------------------------
(* DEAD_KEYS: the catalog, a list of dict objects *)

NCat == 2

DEAD_KEYS == [n \in 1..NCat |-> n]

CatalogObjects ==
    1 :> << <<"char", ODK_ID>>, <<"name", <<"1", "d", "k">> >>,
            <<"base", <<>> >>, <<"alt", <<>> >> >>
    @@
    2 :> << <<"char", <<"*", "^">> >>, <<"name", <<"c", "i", "r", "c">> >>,
            <<"base", <<"a", "A", "e", "!">> >>,
            <<"alt", <<"U+00E2", "U+00C2", "U+00EA", "U+00A1">> >> >>

(* the catalog's own dict object, as plain dk would be *)
DkCopyAlias(h, id) == [heap |-> h, id |-> id]

(* dk.copy(): a new dict object holding the same items *)
DkCopy(h, id) == [heap |-> (NCat + id) :> h[id] @@ h, id |-> NCat + id]

----------------------------------------------------------------------------
(* KeyboardLayout._parse_template.  self is [layers, dead_keys, heap]. *)

CellAt(line, i) ==
    (IF At(line, i - 1) = "*" THEN <<"*">> ELSE <<>>) \o <<At(line, i)>>

Registered(self, key, copy) ==
    [self EXCEPT !.heap = copy.heap, !.dead_keys = DictSet(@, key, copy.id)]

RegisterOne(self, key, dk) ==
    IF key = DictGet(self.heap[dk], "char")
    THEN Registered(self, key, DkCopy(self.heap, dk))
    ELSE self

RECURSIVE RegisterDeadKeys(_, _, _, _)
RegisterDeadKeys(self, base_key, shift_key, n) ==
    IF n > Len(DEAD_KEYS) THEN self
    ELSE Then([s \in {RegisterOne(RegisterOne(self, base_key, DEAD_KEYS[n]),
                          shift_key, DEAD_KEYS[n])}
          |-> RegisterDeadKeys(s, base_key, shift_key, n + 1)])

AssignOne(ls, n, key, value) == IF value # Blank THEN LyrSet(ls, n, key, value) ELSE ls

AssignKey(self, key, layer_number, base_key, shift_key) ==
    Then([s \in {[self EXCEPT !.layers =
             AssignOne(AssignOne(@, layer_number + 0, key, base_key),
                       layer_number + 1, key, shift_key)]}
          |-> RegisterDeadKeys(s, base_key, shift_key, 1)])

BaseKeyOf(layer_number, base_read, shift_read) ==
    IF layer_number = BASE /\ base_read = Blank      \* 'shift' prevails
    THEN StrLower(shift_read) ELSE base_read

ShiftKeyOf(layer_number, base_key, shift_read) ==
    IF layer_number # BASE /\ shift_read = Blank
    THEN upper_key(base_key) ELSE shift_read

ParseCell(self, key, layer_number, base_key, shift_read) ==
    AssignKey(self, key, layer_number, base_key,
              ShiftKeyOf(layer_number, base_key, shift_read))

ParseKey(self, base, shift, i, key, layer_number) ==
    ParseCell(self, key, layer_number,
              BaseKeyOf(layer_number, CellAt(base, i), CellAt(shift, i)),
              CellAt(shift, i))

RECURSIVE ParseKeys(_, _, _, _, _, _, _)
ParseKeys(self, base, shift, i, keys, n, layer_number) ==
    IF n > Len(keys) THEN self
    ELSE Then([s \in {ParseKey(self, base, shift, i, keys[n], layer_number)}
          |-> ParseKeys(s, base, shift, i + KeyPitch, keys, n + 1,
                                   layer_number)])

ColOffset(layer_number) == IF layer_number = BASE THEN 0 ELSE 2

RECURSIVE ParseRows(_, _, _, _, _)
ParseRows(self, template, rows, j, layer_number) ==
    IF j >= Len(rows) THEN self
    ELSE Then([s \in {ParseKeys(self, At(template, 2 + j * 3), At(template, 1 + j * 3),
                        rows[j + 1].offset + ColOffset(layer_number),
                        rows[j + 1].keys, 1, layer_number)}
          |-> ParseRows(s, template, rows, j + 1, layer_number)])

parse_template(self, template, rows, layer_number) ==
    Then([s \in {self}
          |-> ParseRows(s, template, rows, 0, layer_number)])

----------------------------------------------------------------------------
(* KeyboardLayout._fill_template.  lines is [base, shift], the two lines of
   the row being filled. *)

IsDead(cell) == Len(cell) = 2 /\ cell[1] = "*"

WriteCell(line, i, cell) ==
    IF IsDead(cell) THEN SetAt(SetAt(line, i, cell[Len(cell)]), i - 1, "*")
    ELSE SetAt(line, i, cell[Len(cell)])

CellOf(ls, n, key) == IF DictHas(Lyr(ls, n), key) THEN DictGet(Lyr(ls, n), key) ELSE Blank

FillCell(lines, i, shift_prevails, base_key, shift_key) ==
    IF shift_prevails
    THEN [shift |-> WriteCell(lines.shift, i, shift_key),
          base |-> IF upper_key(base_key) # shift_key
                   THEN WriteCell(lines.base, i, base_key) ELSE lines.base]
    ELSE [base |-> WriteCell(lines.base, i, base_key),
          shift |-> IF upper_key(base_key) # shift_key
                    THEN WriteCell(lines.shift, i, shift_key) ELSE lines.shift]

FillKey(ls, lines, i, key, layer_number) ==
    FillCell(lines, i, layer_number = BASE,
             CellOf(ls, layer_number, key), CellOf(ls, layer_number + 1, key))

RECURSIVE FillKeys(_, _, _, _, _, _)
FillKeys(ls, lines, i, keys, n, layer_number) ==
    IF n > Len(keys) THEN lines
    ELSE Then([filled \in {FillKey(ls, lines, i, keys[n], layer_number)}
          |-> FillKeys(ls, filled, i + KeyPitch, keys, n + 1,
                                       layer_number)])

PutLines(template, j, lines) ==
    SetAt(SetAt(template, 2 + j * 3, lines.base), 1 + j * 3, lines.shift)

RECURSIVE FillRows(_, _, _, _, _)
FillRows(ls, template, rows, j, layer_number) ==
    IF j >= Len(rows) THEN template
    ELSE Then([filled \in {PutLines(template, j,
                       FillKeys(ls, [base |-> At(template, 2 + j * 3),
                                     shift |-> At(template, 1 + j * 3)],
                                rows[j + 1].offset + ColOffset(layer_number),
                                rows[j + 1].keys, 1, layer_number))}
          |-> FillRows(ls, filled, rows, j + 1, layer_number)])

fill_template(ls, template, rows, layer_number) ==
    Then([lines \in {template}
          |-> FillRows(ls, lines, rows, 0, layer_number)])

----------------------------------------------------------------------------
(* A well-formed canvas of a shape: the shape's template with, for every key,
   a two-character text (marker column, glyph column) on the shift line and on
   the base line, at col_offset 0 and at col_offset 2 *)

PutText(line, i, text) == SetAt(SetAt(line, i - 1, text[1]), i, text[2])

CanvasKey(lines, i, c) ==
    [shift |-> PutText(PutText(lines.shift, i, c.s0), i + 2, c.s2),
     base |-> PutText(PutText(lines.base, i, c.b0), i + 2, c.b2)]

RECURSIVE CanvasKeys(_, _, _, _, _)
CanvasKeys(lines, i, keys, n, cells) ==
    IF n > Len(keys) THEN lines
    ELSE Then([drawn \in {CanvasKey(lines, i, cells[keys[n]])}
          |-> CanvasKeys(drawn, i + KeyPitch, keys, n + 1, cells)])

RECURSIVE CanvasRows(_, _, _, _)
CanvasRows(template, rows, j, cells) ==
    IF j >= Len(rows) THEN template
    ELSE Then([drawn \in {PutLines(template, j,
                       CanvasKeys([base |-> At(template, 2 + j * 3),
                                   shift |-> At(template, 1 + j * 3)],
                                  rows[j + 1].offset, rows[j + 1].keys, 1, cells))}
          |-> CanvasRows(drawn, rows, j + 1, cells)])

Canvas(shape, cells) == CanvasRows(TemplateLines(shape), GeometryRows(shape), 0, cells)

NoText == <<" ", " ">>

----------------------------------------------------------------------------
(* The instance before any layer is parsed *)

EmptyLayers == [n \in 1..6 |-> <<>>]

BlankSelf(h) == [layers |-> EmptyLayers, dead_keys |-> <<>>, heap |-> h]

NoInstance ==
    /\ layers = EmptyLayers
    /\ dead_keys = <<>>
    /\ dk_index = <<>>
    /\ meta = <<>>
    /\ has_altgr = FALSE
    /\ has_1dk = FALSE

----------------------------------------------------------------------------
(* Module constants of layout.py *)

CONFIG ==
    << <<"author", <<"n", "o", "b", "o", "d", "y">> >>,
       <<"license",
         <<"W", "T", "F", "P", "L", " ", "-", " ", "D", "o", " ", "W", "h", "a",
           "t", " ", "T", "h", "e", " ", "F", "u", "c", "k", " ", "Y", "o", "u",
           " ", "W", "a", "n", "t", " ", "P", "u", "b", "l", "i", "c", " ", "L",
           "i", "c", "e", "n", "s", "e">> >>,
       <<"geometry", ISO>> >>

SPACEBAR ==
    << <<"shift", <<" ">> >>,
       <<"altgr", <<" ">> >>,
       <<"altgr_shift", <<" ">> >>,
       <<"1dk", <<"'">> >>,
       <<"1dk_shift", <<"'">> >> >>

(* datetime.date.today().isoformat() *)
Today == <<"2", "0", "2", "6", "-", "1", "1", "-", "0", "4">>

(* utils.text_to_lines: a block of the descriptor as its list of lines *)
text_to_lines(text) == text

----------------------------------------------------------------------------
(* KeyboardLayout.__init__: metadata *)

(* every key of cfg but base, full, altgr and the dict-valued ones (of the
   descriptors below, spacebar) *)
RECURSIVE CopyScalars(_, _, _)
CopyScalars(m, cfg, n) ==
    IF n > Len(cfg) THEN m
    ELSE Then([copied \in {IF cfg[n][1] \notin {"base", "full", "altgr", "spacebar"}
              THEN DictSet(m, cfg[n][1], cfg[n][2]) ELSE m}
          |-> CopyScalars(copied, cfg, n + 1)])

MetaName(m, cfg, filename) ==
    DictSet(m, "name", IF DictHas(cfg, "name") THEN DictGet(cfg, "name") ELSE filename)

MetaName8(m, cfg) ==
    DictSet(m, "name8",
            IF DictHas(cfg, "name8") THEN DictGet(cfg, "name8")
            ELSE SubSeq(DictGet(m, "name"), 1,
                        IF Len(DictGet(m, "name")) < 8 THEN Len(DictGet(m, "name")) ELSE 8))

MetaFileName(m) == DictSet(m, "fileName", StrLower(DictGet(m, "name8")))

InitMeta(cfg, filename) ==
    DictSet(MetaFileName(MetaName8(MetaName(CopyScalars(CONFIG, cfg, 1), cfg, filename),
                                   cfg)),
            "lastChange", Today)

----------------------------------------------------------------------------
(* KeyboardLayout.__init__: keyboard layers, self.layers & self.dead_keys *)

Parsed(self, altgr) == [self |-> self, has_altgr |-> altgr, error |-> "none"]

InitLayers(cfg, rows, h) ==
    IF DictHas(cfg, "full")
    THEN Parsed(parse_template(
                    parse_template(BlankSelf(h), text_to_lines(DictGet(cfg, "full")),
                                   rows, BASE),
                    text_to_lines(DictGet(cfg, "full")), rows, ALTGR),
                TRUE)
    ELSE IF ~DictHas(cfg, "base")
    THEN [self |-> BlankSelf(h), has_altgr |-> FALSE, error |-> "KeyError"]
    ELSE IF DictHas(cfg, "altgr")
    THEN Parsed(parse_template(
                    parse_template(
                        parse_template(BlankSelf(h), text_to_lines(DictGet(cfg, "base")),
                                       rows, BASE),
                        text_to_lines(DictGet(cfg, "base")), rows, ODK),
                    text_to_lines(DictGet(cfg, "altgr")), rows, ALTGR),
                TRUE)
    ELSE Parsed(parse_template(
                    parse_template(BlankSelf(h), text_to_lines(DictGet(cfg, "base")),
                                   rows, BASE),
                    text_to_lines(DictGet(cfg, "base")), rows, ODK),
                FALSE)

(* space bar *)
RECURSIVE DictUpdate(_, _, _)
DictUpdate(d, other, n) ==
    IF n > Len(other) THEN d
    ELSE DictUpdate(DictSet(d, other[n][1], other[n][2]), other, n + 1)

InitSpc(cfg) ==
    IF DictHas(cfg, "spacebar") THEN DictUpdate(SPACEBAR, DictGet(cfg, "spacebar"), 1)
    ELSE SPACEBAR

SpaceBarAltgr(ls, spc, altgr) ==
    IF altgr
    THEN LyrSet(LyrSet(ls, ALTGR, "spce", DictGet(spc, "altgr")),
                ALTGR_SHIFT, "spce", DictGet(spc, "altgr_shift"))
    ELSE ls

InitSpaceBar(ls, spc, altgr) ==
    SpaceBarAltgr(
        LyrSet(LyrSet(LyrSet(LyrSet(ls, BASE, "spce", <<" ">>),
                             SHIFT, "spce", DictGet(spc, "shift")),
                      ODK, "spce", DictGet(spc, "1dk")),
               ODK_SHIFT, "spce",
               IF DictHas(spc, "shift_1dk") THEN DictGet(spc, "shift_1dk")
               ELSE DictGet(spc, "1dk")),
        spc, altgr)

(* active dead keys: self.dk_index *)
RECURSIVE InitDkIndex(_, _, _)
InitDkIndex(h, dks, n) ==
    IF n > Len(DEAD_KEYS) THEN <<>>
    ELSE (IF DictHas(dks, DictGet(h[DEAD_KEYS[n]], "char"))
          THEN <<DictGet(h[DEAD_KEYS[n]], "char")>> ELSE <<>>)
         \o InitDkIndex(h, dks, n + 1)

----------------------------------------------------------------------------
(* KeyboardLayout.__init__: remove unused characters in
   self.dead_keys[].{base,alt} *)

layer_has_char(ls, char, layer_index) ==
    \E n \in 1..Len(Lyr(ls, layer_index)) : Lyr(ls, layer_index)[n][2] = char

RECURSIVE UsedPairs(_, _, _, _, _)
UsedPairs(ls, base, alt, i, used) ==
    IF i >= Len(base) THEN used
    ELSE UsedPairs(ls, base, alt, i + 1,
                   IF layer_has_char(ls, <<At(base, i)>>, BASE)
                      \/ layer_has_char(ls, <<At(base, i)>>, SHIFT)
                   THEN [base |-> used.base \o <<At(base, i)>>,
                         alt |-> used.alt \o <<At(alt, i)>>]
                   ELSE used)

SetUsed(dk, used) == DictSet(DictSet(dk, "base", used.base), "alt", used.alt)

PruneOne(dk, ls) ==
    SetUsed(dk, UsedPairs(ls, DictGet(dk, "base"), DictGet(dk, "alt"), 0,
                          [base |-> <<>>, alt |-> <<>>]))

RECURSIVE Prune(_, _, _, _)
Prune(h, ls, dks, n) ==
    IF n > Len(dks) THEN h
    ELSE Then([pruned \in {[h EXCEPT ![dks[n][2]] = PruneOne(@, ls)]}
          |-> Prune(pruned, ls, dks, n + 1)])

----------------------------------------------------------------------------
(* KeyboardLayout.__init__: 1dk behavior.  r is [odk, error]: the 1dk dict
   and the exception raised so far. *)

(* the default space bar's 1dk value, whatever the descriptor overrides *)
AltSpaceDefault(spc) == DictGet(SPACEBAR, "1dk")

(* odk["alt_space"] = spc["1dk"] *)
AltSpace(spc) == DictGet(spc, "1dk")

(* alt_self (double-press) *)
RECURSIVE AltSelf(_, _, _)
AltSelf(odk, ls, n) ==
    IF n > Len(Lyr(ls, BASE)) THEN [odk |-> odk, error |-> "none"]
    ELSE IF Lyr(ls, BASE)[n][2] = ODK_ID
    THEN IF DictHas(Lyr(ls, ODK), Lyr(ls, BASE)[n][1])
         THEN [odk |-> DictSet(odk, "alt_self",
                               DictGet(Lyr(ls, ODK), Lyr(ls, BASE)[n][1])),
               error |-> "none"]
         ELSE [odk |-> odk, error |-> "KeyError"]
    ELSE AltSelf(odk, ls, n + 1)

(* copy the 2nd and 3rd layers to the dead key *)

(* a skip test that looks at the BASE layer in both passes *)
SkipKeyByBaseLayer(ls, i, name) ==
    name = "spce" \/ CellOf(ls, BASE, name) = ODK_ID

(* not (name != "spce" and base_char != ODK_ID), base_char = self.layers[i][name] *)
SkipKey(ls, i, name) == ~(name # "spce" /\ DictGet(Lyr(ls, i), name) # ODK_ID)

AppendPair(odk, base_char, alt_char) ==
    DictSet(DictSet(odk, "base", DictGet(odk, "base") \o base_char),
            "alt", DictGet(odk, "alt") \o alt_char)

RECURSIVE CopyLayer(_, _, _, _)
CopyLayer(r, ls, i, n) ==
    IF r.error # "none" \/ n > Len(Lyr(ls, i + ODK)) THEN r
    ELSE IF ~DictHas(Lyr(ls, i), Lyr(ls, i + ODK)[n][1])
    THEN [r EXCEPT !.error = "KeyError"]
    ELSE IF SkipKey(ls, i, Lyr(ls, i + ODK)[n][1])
    THEN CopyLayer(r, ls, i, n + 1)
    ELSE Then([appended \in
                  {[r EXCEPT !.odk = AppendPair(@, DictGet(Lyr(ls, i), Lyr(ls, i + ODK)[n][1]),
                                               Lyr(ls, i + ODK)[n][2])]}
          |-> CopyLayer(appended, ls, i, n + 1)])

Store1dk(h, id, r) ==
    [heap |-> [h EXCEPT ![id] = r.odk], has_1dk |-> TRUE, error |-> r.error]

Init1dk(h, ls, dks, spc) ==
    IF ~DictHas(dks, ODK_ID) THEN [heap |-> h, has_1dk |-> FALSE, error |-> "none"]
    ELSE Store1dk(h, DictGet(dks, ODK_ID),
                  Then([r \in {Then([r \in {AltSelf(DictSet(h[DictGet(dks, ODK_ID)], "alt_space",
                                            AltSpace(spc)),
                                    ls, 1)}
          |-> CopyLayer(r, ls, BASE, 1)])}
          |-> CopyLayer(r, ls, SHIFT, 1)]))

----------------------------------------------------------------------------
(* KeyboardLayout.__init__, whole: the instance it leaves, the heap, and the
   exception it raised, if any *)

Failed(h, error) ==
    [status |-> error, layers |-> EmptyLayers, dead_keys |-> <<>>, dk_index |-> <<>>,
     meta |-> <<>>, has_altgr |-> FALSE, has_1dk |-> FALSE, heap |-> h]

Finish(m, parsed, ls, odk) ==
    IF odk.error # "none" THEN Failed(odk.heap, odk.error)
    ELSE [status |-> "done", layers |-> ls, dead_keys |-> parsed.self.dead_keys,
          dk_index |-> InitDkIndex(parsed.self.heap, parsed.self.dead_keys, 1),
          meta |-> m, has_altgr |-> parsed.has_altgr, has_1dk |-> odk.has_1dk,
          heap |-> odk.heap]

ResolveDeadKeys(m, parsed, spc, ls) ==
    Then([pruned \in {Prune(parsed.self.heap, ls, parsed.self.dead_keys, 1)}
          |-> Finish(m, parsed, ls, Init1dk(pruned, ls, parsed.self.dead_keys, spc))])

Resolve(cfg, m, parsed) ==
    IF parsed.error # "none" THEN Failed(parsed.self.heap, parsed.error)
    ELSE Then([ls \in {InitSpaceBar(parsed.self.layers, InitSpc(cfg), parsed.has_altgr)}
          |-> ResolveDeadKeys(m, parsed, InitSpc(cfg), ls)])

Assemble(cfg, h, m) ==
    IF DictGet(m, "geometry") \notin DOMAIN GeometryTable THEN Failed(h, "KeyError")
    ELSE Then([parsed \in {InitLayers(cfg, GEOMETRY(DictGet(m, "geometry")).rows, h)}
          |-> Resolve(cfg, m, parsed)])

KeyboardLayout(cfg, filename, h) ==
    Then([m \in {InitMeta(cfg, filename)}
          |-> Assemble(cfg, h, m)])

----------------------------------------------------------------------------
(* Geometry: base, full, altgr *)

RECURSIVE FillLayers(_, _, _, _, _)
FillLayers(ls, template, rows, layer_list, n) ==
    IF n > Len(layer_list) THEN template
    ELSE Then([filled \in {fill_template(ls, template, rows, layer_list[n])}
          |-> FillLayers(ls, filled, rows, layer_list, n + 1)])

geometry_get(m) == StrUpper(DictGet(m, "geometry"))

GetGeometryOf(ls, shape, layer_list) ==
    FillLayers(ls, TemplateLines(shape), GEOMETRY(shape).rows, layer_list, 1)

get_geometry(ls, m, layer_list) == GetGeometryOf(ls, geometry_get(m), layer_list)

SetShape(m, shape) ==
    DictSet(m, "geometry", IF shape \notin {ANSI, ISO, ERGO} THEN ISO ELSE shape)

(* a setter without the fallback to ISO *)
geometry_set_unchecked(m, value) == DictSet(m, "geometry", StrUpper(value))

geometry_set(m, value) == SetShape(m, StrUpper(value))

----------------------------------------------------------------------------
(* The descriptors on disk.  files[1] ranges over Descriptors; files[2] is one
   fixed named layout. *)

NumOdkTexts == 3

OdkTextPool ==
    << NoText, <<" ", "e">>, <<" ", "1">>, <<"*", "^">>, <<"*", "*">> >>

OdkTexts ==
    {OdkTextPool[n] : n \in 1..(IF NumOdkTexts < Len(OdkTextPool)
                                THEN NumOdkTexts ELSE Len(OdkTextPool))}

ShiftTexts == {NoText, <<" ", "A">>}

BaseTexts == {NoText, <<" ", "a">>, <<"*", "*">>, <<"*", "^">>}

KeyCells == [s0 : ShiftTexts, b0 : BaseTexts, s2 : {NoText}, b2 : OdkTexts]

NoCell == [s0 |-> NoText, b0 |-> NoText, s2 |-> NoText, b2 |-> NoText]

(* cells without a dead key on the BASE layer *)
PlainCells == [s0 : ShiftTexts, b0 : {NoText, <<" ", "a">>}, s2 : {NoText}, b2 : OdkTexts]

Canvases(shape) == {Canvas(shape, cells) : cells \in [ShapeKeys(shape) -> KeyCells]}

PlainCanvases(shape) ==
    {Canvas(shape, cells) : cells \in [ShapeKeys(shape) -> PlainCells]}

(* canvases whose keys other than ae01 are empty *)
OneKeyCanvases(shape) ==
    {Canvas(shape, [k \in ShapeKeys(shape) |-> IF k = "ae01" THEN c ELSE NoCell]) :
        c \in KeyCells}

(* canvases with the same cell on every key *)
UniformCanvases(shape) ==
    {Canvas(shape, [k \in ShapeKeys(shape) |-> c]) : c \in KeyCells}

(* an altgr canvas whose only glyph is the 1dk trigger, on ae01 *)
AltgrCanvas(shape) ==
    Canvas(shape, [k \in ShapeKeys(shape) |->
                       IF k = "ae01" THEN [NoCell EXCEPT !.b2 = <<"*", "*">>] ELSE NoCell])

SpacebarOverride ==
    << <<"spacebar", << <<"1dk", <<"U+00B4">> >>, <<"shift_1dk", <<"U+00A8">> >> >> >> >>

qwerty == <<"q", "w", "e", "r", "t", "y">>

Descriptors ==
    {<< <<"geometry", ISO>>, <<"base", c>> >> : c \in Canvases(ISO)}
    \cup {<< <<"geometry", ISO>>, <<"base", c>>, <<"altgr", AltgrCanvas(ISO)>> >> :
        c \in PlainCanvases(ISO)}
    \cup {<< <<"geometry", ISO>>, <<"full", c>> >> : c \in UniformCanvases(ISO)}
    \cup {<< <<"geometry", ANSI>>, <<"base", c>> >> : c \in UniformCanvases(ANSI)}
    \cup {<< <<"geometry", ERGO>>, <<"base", c>> >> \o sp :
        c \in Canvases(ERGO), sp \in {<<>>, SpacebarOverride}}
    \cup {<< <<"base", c>> >> : c \in OneKeyCanvases(ISO)}
    \cup {<< <<"geometry", qwerty>>, <<"base", c>> >> : c \in OneKeyCanvases(ISO)}

NamedDescriptor ==
    << <<"name", <<"q", "w", "e", "r", "t", "y", "-", "l", "a", "f", "a", "y", "e",
                   "t", "t", "e">> >>,
       <<"name8", <<"Q", "-", "L", "a", "f">> >>,
       <<"description", <<"1", "d", "k">> >>,
       <<"geometry", ERGO>>,
       <<"base", Canvas(ERGO, [k \in ShapeKeys(ERGO) |->
                                   [s0 |-> <<" ", "A">>, b0 |-> <<" ", "a">>,
                                    s2 |-> NoText, b2 |-> <<"*", "*">>]])>>,
       <<"altgr", Canvas(ERGO, [k \in ShapeKeys(ERGO) |->
                                    [NoCell EXCEPT !.b2 = <<"*", "^">>]])>> >>

Paths == {1, 2}

(* os.path.splitext(os.path.basename(filepath))[0] *)
FileName(path) ==
    IF path = 1 THEN <<"D", "v", "o", "r", "a", "k", "-", "i", "n", "t", "l">>
    ELSE <<"l", "a", "f">>

(* load_descriptor(filepath) *)
load_descriptor(path) == files[path]

----------------------------------------------------------------------------
(* The state machine: constructing an instance from a file, reading its
   views, reading and assigning its geometry.  built is a history variable:
   the file the last construction read, whether an earlier construction had
   run, and the instance as the constructor left it. *)

CatalogPart(h) == [id \in 1..NCat |-> h[id]]

(* the objects still referenced: the catalog's and the instance's *)
Collect(h, dks) ==
    [id \in (1..NCat) \cup {dks[n][2] : n \in 1..Len(dks)} |-> h[id]]

(* self.dead_keys with every dict object in place of its reference *)
DeadKeyTable(h, dks) == [n \in 1..Len(dks) |-> <<dks[n][1], h[dks[n][2]]>>]

Init ==
    /\ \E d \in Descriptors :
           files = [path \in Paths |-> IF path = 1 THEN d ELSE NamedDescriptor]
    /\ heap = CatalogObjects
    /\ status = "none"
    /\ NoInstance
    /\ built = <<>>
    /\ ret = <<>>
    /\ rt = [pc |-> "idle"]

Install(path, r) ==
    /\ status' = r.status
    /\ layers' = r.layers
    /\ dead_keys' = r.dead_keys
    /\ dk_index' = r.dk_index
    /\ meta' = r.meta
    /\ has_altgr' = r.has_altgr
    /\ has_1dk' = r.has_1dk
    /\ heap' = Collect(r.heap, r.dead_keys)
    /\ built' = IF r.status = "done"
                THEN [path |-> path, again |-> status # "none", layers |-> r.layers,
                      dead_keys |-> DeadKeyTable(r.heap, r.dead_keys),
                      dk_index |-> r.dk_index, meta |-> r.meta,
                      has_altgr |-> r.has_altgr, has_1dk |-> r.has_1dk]
                ELSE [path |-> path, again |-> status # "none"]
    /\ ret' = <<>>
    /\ UNCHANGED <<files, rt>>

Construct(path) ==
    Install(path, KeyboardLayout(load_descriptor(path), FileName(path), CatalogPart(heap)))

ReadBase ==
    /\ status = "done"
    /\ ret' = <<"base", get_geometry(layers, meta, <<0, ODK>>)>>
    /\ UNCHANGED <<files, heap, status, layers, dead_keys, dk_index, meta,
                   has_altgr, has_1dk, built, rt>>

ReadFull ==
    /\ status = "done"
    /\ ret' = <<"full", get_geometry(layers, meta, <<0, ALTGR>>)>>
    /\ UNCHANGED <<files, heap, status, layers, dead_keys, dk_index, meta,
                   has_altgr, has_1dk, built, rt>>

ReadAltgr ==
    /\ status = "done"
    /\ ret' = <<"altgr", get_geometry(layers, meta, <<ALTGR>>)>>
    /\ UNCHANGED <<files, heap, status, layers, dead_keys, dk_index, meta,
                   has_altgr, has_1dk, built, rt>>

ReadGeometry ==
    /\ status = "done"
    /\ ret' = <<"geometry", geometry_get(meta)>>
    /\ UNCHANGED <<files, heap, status, layers, dead_keys, dk_index, meta,
                   has_altgr, has_1dk, built, rt>>

GeometryValues == {<<"e", "r", "g", "o">>, qwerty}

SetGeometry(value) ==
    /\ status = "done"
    /\ meta' = geometry_set(meta, value)
    /\ ret' = <<>>
    /\ UNCHANGED <<files, heap, status, layers, dead_keys, dk_index,
                   has_altgr, has_1dk, built, rt>>

Next ==
    \/ \E path \in Paths : Construct(path)
    \/ ReadBase
    \/ ReadFull
    \/ ReadAltgr
    \/ ReadGeometry
    \/ \E value \in GeometryValues : SetGeometry(value)

Spec == Init /\ [][Next]_vars

----------------------------------------------------------------------------
(* The codec round trip: parse a canvas, fill the layers into the shape's
   blank template, parse the result *)

RTTexts ==
    { NoText, <<" ", "a">>, <<" ", "A">>, <<" ", "1">>, <<"*", "^">>,
      <<" ", "|">>, <<" ", "U+00A6">>, <<"*", "*">> }

RTPairs == {BASE, ODK, ALTGR}

RTCells(shape, layer_number) ==
    [ShapeKeys(shape) ->
        IF layer_number = BASE
        THEN [s0 : RTTexts, b0 : RTTexts, s2 : {NoText}, b2 : {NoText}]
        ELSE [s0 : {NoText}, b0 : {NoText}, s2 : RTTexts, b2 : RTTexts]]

RTInit ==
    /\ files = <<>>
    /\ heap = CatalogObjects
    /\ status = "none"
    /\ NoInstance
    /\ built = <<>>
    /\ ret = <<>>
    /\ \E shape \in Shapes, layer_number \in RTPairs :
           \E cells \in RTCells(shape, layer_number) :
               rt = [pc |-> "canvas", shape |-> shape, layer |-> layer_number,
                     text |-> Canvas(shape, cells)]

RTParse ==
    /\ rt.pc = "canvas"
    /\ rt' = [pc |-> "parsed", shape |-> rt.shape, layer |-> rt.layer,
              M |-> parse_template(BlankSelf(heap), rt.text,
                                   GEOMETRY(rt.shape).rows, rt.layer).layers]
    /\ UNCHANGED <<files, heap, status, layers, dead_keys, dk_index, meta,
                   has_altgr, has_1dk, built, ret>>

RTFill ==
    /\ rt.pc = "parsed"
    /\ rt' = [pc |-> "filled", shape |-> rt.shape, layer |-> rt.layer, M |-> rt.M,
              filled |-> fill_template(rt.M, TemplateLines(rt.shape),
                                       GEOMETRY(rt.shape).rows, rt.layer)]
    /\ UNCHANGED <<files, heap, status, layers, dead_keys, dk_index, meta,
                   has_altgr, has_1dk, built, ret>>

RTReparse ==
    /\ rt.pc = "filled"
    /\ rt' = [pc |-> "reparsed", shape |-> rt.shape, layer |-> rt.layer, M |-> rt.M,
              M2 |-> parse_template(BlankSelf(heap), rt.filled,
                                    GEOMETRY(rt.shape).rows, rt.layer).layers]
    /\ UNCHANGED <<files, heap, status, layers, dead_keys, dk_index, meta,
                   has_altgr, has_1dk, built, ret>>

RTNext == RTParse \/ RTFill \/ RTReparse

SpecRT == RTInit /\ [][RTNext]_vars

----------------------------------------------------------------------------
(* Properties of the template codec *)

SameLayer(d1, d2) ==
    {d1[n] : n \in 1..Len(d1)} = {d2[n] : n \in 1..Len(d2)}

(* C1: for every shape, every layer pair and every Layer Model M parsed from a
   well-formed canvas, parsing the blank template filled with M gives M again:
   the same keys with the same cell values in every layer. *)
C1_RoundTrip ==
    rt.pc = "reparsed" => \A n \in 1..6 : SameLayer(rt.M2[n], rt.M[n])

(* The round trip does hold for the pairs read at col_offset 2. *)
RoundTripSecondary ==
    (rt.pc = "reparsed" /\ rt.layer # BASE)
        => \A n \in 1..6 : SameLayer(rt.M2[n], rt.M[n])

----------------------------------------------------------------------------
(* Properties of the finished model *)

Finished == status = "done"

(* the dict object self.dead_keys[dk_id] *)
DeadKey(n) == heap[dead_keys[n][2]]

(* self.dead_keys[ODK_ID] *)
TheOdk == heap[DictGet(dead_keys, ODK_ID)]

NonSpaceKeys(ls, n) == {k \in {Lyr(ls, n)[m][1] : m \in 1..Len(Lyr(ls, n))} : k # "spce"}

(* the layers a descriptor authors, before the space bar is added *)
AuthoredOf(cfg, m) ==
    IF DictGet(m, "geometry") \notin DOMAIN GeometryTable THEN BlankSelf(CatalogObjects)
    ELSE InitLayers(cfg, GEOMETRY(DictGet(m, "geometry")).rows, CatalogObjects).self

Authored(path) == AuthoredOf(files[path], InitMeta(files[path], FileName(path)))

(* C2: in the finished model every character of every dead key's base string
   is the cell value of some key of the BASE layer or of the SHIFT layer. *)
C2_PruningSound ==
    Finished =>
        \A n \in 1..Len(dead_keys) :
            \A k \in 1..Len(DictGet(DeadKey(n), "base")) :
                \/ layer_has_char(layers, <<DictGet(DeadKey(n), "base")[k]>>, BASE)
                \/ layer_has_char(layers, <<DictGet(DeadKey(n), "base")[k]>>, SHIFT)

(* C3: in the finished model every dead key's base and alt strings have the
   same length. *)
C3_BaseAltAligned ==
    Finished =>
        \A n \in 1..Len(dead_keys) :
            Len(DictGet(DeadKey(n), "base")) = Len(DictGet(DeadKey(n), "alt"))

(* a descriptor that makes the 1dk active and gives some key other than the
   space bar a value in ODK but none in BASE, or in ODK_SHIFT but none in SHIFT *)
SparseOdk(self) ==
    /\ DictHas(self.dead_keys, ODK_ID)
    /\ \/ NonSpaceKeys(self.layers, ODK) \ NonSpaceKeys(self.layers, BASE) # {}
       \/ NonSpaceKeys(self.layers, ODK_SHIFT) \ NonSpaceKeys(self.layers, SHIFT) # {}

(* C4: compiling a descriptor with sparse ODK authoring ends with a finished
   model. *)
C4_SparseOdkCompletes ==
    (status # "none" /\ SparseOdk(Authored(built.path))) => Finished

UnknownGeometry(m) == DictGet(m, "geometry") \notin DOMAIN GeometryTable

(* C5: compiling a descriptor whose geometry is no shape of the Geometry Table
   fails with a ConfigurationError, with no layer parsed. *)
C5_UnknownGeometryRejected ==
    (status # "none"
     /\ UnknownGeometry(InitMeta(files[built.path], FileName(built.path))))
        => status = "ConfigurationError" /\ layers = EmptyLayers

(* C6 as stated: after construction the Layer Model, the dead-key table,
   dk_index and the Metadata all keep the value construction gave them. *)
C6_NothingChanges ==
    Finished =>
        /\ layers = built.layers
        /\ DeadKeyTable(heap, dead_keys) = built.dead_keys
        /\ dk_index = built.dk_index
        /\ meta = built.meta

(* C6, amended: after construction the Layer Model, the dead-key table and
   dk_index keep the value construction gave them, and so does every Metadata
   entry but geometry; geometry holds either the constructed value or, once
   assigned, one of ANSI, ISO, ERGO. *)
C6_OnlyGeometryChanges ==
    Finished =>
        /\ layers = built.layers
        /\ DeadKeyTable(heap, dead_keys) = built.dead_keys
        /\ dk_index = built.dk_index
        /\ meta = DictSet(built.meta, "geometry", DictGet(meta, "geometry"))
        /\ DictGet(meta, "geometry")
               \in {DictGet(built.meta, "geometry"), ANSI, ISO, ERGO}

(* a view was read after an assignment that changed the geometry *)
C6_Reassigned ==
    /\ Finished
    /\ DictGet(meta, "geometry") # DictGet(built.meta, "geometry")
    /\ ret # <<>>
    /\ ret[1] = "base"
    /\ Len(dead_keys) > 0

MinLen(s, t) == IF Len(s) < Len(t) THEN Len(s) ELSE Len(t)

RECURSIVE SpecifiedPairs(_, _, _, _)
SpecifiedPairs(ls, i, skip, n) ==
    IF n = 0 THEN [base |-> <<>>, alt |-> <<>>]
    ELSE IF Lyr(ls, i + ODK)[n][1] # "spce"
            /\ DictHas(Lyr(ls, i), Lyr(ls, i + ODK)[n][1])
            /\ CellOf(ls, skip, Lyr(ls, i + ODK)[n][1]) # ODK_ID
    THEN [base |-> SpecifiedPairs(ls, i, skip, n - 1).base
                       \o DictGet(Lyr(ls, i), Lyr(ls, i + ODK)[n][1]),
          alt |-> SpecifiedPairs(ls, i, skip, n - 1).alt \o Lyr(ls, i + ODK)[n][2]]
    ELSE SpecifiedPairs(ls, i, skip, n - 1)

AllPairs(ls, i, skip) == SpecifiedPairs(ls, i, skip, Len(Lyr(ls, i + ODK)))

(* the catalog entry of a trigger *)
CatalogEntry(char) ==
    CatalogObjects[CHOOSE id \in 1..NCat : DictGet(CatalogObjects[id], "char") = char]

(* the 1dk entry of the catalog after pruning: what synthesis appends to *)
PrunedOdk(ls) == PruneOne(CatalogEntry(ODK_ID), ls)

(* C8 as stated: the ODK dead key's base/alt are the (BASE, ODK) pairs, then
   the (SHIFT, ODK_SHIFT) pairs, leaving out the space bar and, in both
   passes, the keys whose BASE value is the trigger. *)
C8_SkipByBaseValue ==
    (Finished /\ has_1dk) =>
        /\ DictGet(TheOdk, "base")
               = DictGet(PrunedOdk(layers), "base")
                     \o AllPairs(layers, BASE, BASE).base \o AllPairs(layers, SHIFT, BASE).base
        /\ DictGet(TheOdk, "alt")
               = DictGet(PrunedOdk(layers), "alt")
                     \o AllPairs(layers, BASE, BASE).alt \o AllPairs(layers, SHIFT, BASE).alt

(* C8, amended: in a finished model with the ODK dead key active, its
   base/alt are the concatenation of the (BASE, ODK) cell values, then of the
   (SHIFT, ODK_SHIFT) cell values, leaving out the space bar, in the first
   pass the keys whose BASE value is the trigger and in the second pass the
   keys whose SHIFT value is the trigger. *)
C8_SkipByOwnLayer ==
    (Finished /\ has_1dk) =>
        /\ DictGet(TheOdk, "base")
               = DictGet(PrunedOdk(layers), "base")
                     \o AllPairs(layers, BASE, BASE).base \o AllPairs(layers, SHIFT, SHIFT).base
        /\ DictGet(TheOdk, "alt")
               = DictGet(PrunedOdk(layers), "alt")
                     \o AllPairs(layers, BASE, BASE).alt \o AllPairs(layers, SHIFT, SHIFT).alt

(* a finished model whose trigger key carries a SHIFT and an ODK_SHIFT value,
   and where another key contributes a (BASE, ODK) pair *)
C8_TriggerKeyWithShift ==
    /\ Finished
    /\ has_1dk
    /\ \E k \in NonSpaceKeys(layers, ODK_SHIFT) :
           /\ CellOf(layers, BASE, k) = ODK_ID
           /\ CellOf(layers, SHIFT, k) # ODK_ID
    /\ \E k \in NonSpaceKeys(layers, ODK) : CellOf(layers, BASE, k) # ODK_ID

(* the keys that carry the trigger on the BASE layer, in layer order *)
TriggerKeys == SelectSeq(Lyr(layers, BASE), LAMBDA kv : kv[2] = ODK_ID)

(* C9 as stated: with has_1dk, alt_space is the space bar's ODK value and
   alt_self is the ODK value of the key that carries the trigger on BASE. *)
C9_BothScalarsSet ==
    (Finished /\ has_1dk) =>
        /\ DictHas(TheOdk, "alt_space")
        /\ DictGet(TheOdk, "alt_space") = DictGet(Lyr(layers, ODK), "spce")
        /\ DictHas(TheOdk, "alt_self")
        /\ \E n \in 1..Len(TriggerKeys) :
               DictGet(TheOdk, "alt_self") = CellOf(layers, ODK, TriggerKeys[n][1])

(* C9, amended: with has_1dk, alt_space is the space bar's ODK value; alt_self
   is the ODK value of the first key that carries the trigger on BASE, and is
   left as the catalog entry has it (absent, if it has none) when no key
   carries the trigger on BASE. *)
C9_AltSelfOnlyFromBase ==
    (Finished /\ has_1dk) =>
        /\ DictHas(TheOdk, "alt_space")
        /\ DictGet(TheOdk, "alt_space") = DictGet(Lyr(layers, ODK), "spce")
        /\ IF Len(TriggerKeys) > 0
           THEN /\ DictHas(TheOdk, "alt_self")
                /\ DictHas(Lyr(layers, ODK), TriggerKeys[1][1])
                /\ DictGet(TheOdk, "alt_self")
                       = DictGet(Lyr(layers, ODK), TriggerKeys[1][1])
           ELSE DictHas(TheOdk, "alt_self")
                    = DictHas(CatalogEntry(ODK_ID), "alt_self")

(* a finished model whose 1dk was registered from a layer other than BASE *)
C9_TriggerOffBase ==
    /\ Finished
    /\ has_1dk
    /\ Len(TriggerKeys) = 0

(* the instance construction left, against the one the same file gives when
   compiled first *)
SameModel(b, r) ==
    /\ r.status = "done"
    /\ b.layers = r.layers
    /\ b.dead_keys = DeadKeyTable(r.heap, r.dead_keys)
    /\ b.dk_index = r.dk_index
    /\ b.meta = r.meta
    /\ b.has_altgr = r.has_altgr
    /\ b.has_1dk = r.has_1dk

(* C10: after any sequence of constructions the catalog entries are as they
   were at start, with no field added, and the finished model of a descriptor
   is the one it gives when it is the first to be compiled. *)
C10_CatalogUntouched ==
    /\ CatalogPart(heap) = CatalogObjects
    /\ Finished =>
           SameModel(built, KeyboardLayout(files[built.path], FileName(built.path),
                                           CatalogObjects))

(* a finished model with pruned and synthesized dead keys of its own, built
   after an earlier construction *)
C10_SecondCompilation ==
    /\ Finished
    /\ built.again
    /\ has_1dk
    /\ DictHas(TheOdk, "alt_space")
    /\ \E n \in 1..Len(dead_keys) :
           DictGet(DeadKey(n), "base") # DictGet(CatalogEntry(dead_keys[n][1]), "base")

====
